---- MODULE Spec2Model ----
(***************************************************************************)
(* Verification model of the signup automation core:                       *)
(*   - PhoneManager            (src/src/utils/phone_manager.py)            *)
(*   - PhoneNumber.clean_number (src/src/types/models.py)                  *)
(*   - AirbnbSignupPage.wait_for_otp_screen                                *)
(*                             (src/src/pages/airbnb/signup_page.py)       *)
(*   - SignupOrchestrator      (src/src/services/signup_orchestrator.py)   *)
(*   - BrowserManager.stop, BrowserManager._mlx_session                    *)
(*                             (src/src/core/browser_manager.py)           *)
(*   - AccountSaver.save       (src/src/services/account_saver.py)         *)
(*   - AirbnbSignupPage selector steps and get_error_message               *)
(*   - run_continuous_loop     (src/src/runners/airbnb_runner.py)          *)
(*                                                                         *)
(* The specifications share the variables:                                 *)
(*   SpecPM        the PhoneManager driven call by call through its API,   *)
(*   SpecPeers     two PhoneManagers on the same files,                    *)
(*   SpecSavers    two tasks calling AccountSaver.save,                    *)
(*   SpecMlx       one MultiLoginX session and its cleanup,                *)
(*   SpecOtp       one call of wait_for_otp_screen, one action per tick,   *)
(*   SpecOtpResult step 4 of an attempt: the classifier and its caller,    *)
(*   SpecSelectors one call of a step that walks a list of selectors,      *)
(*   Spec          SignupOrchestrator.run_single_signup, attempt after     *)
(*                 attempt, on top of the PhoneManager,                    *)
(*   SpecAbort     the same with a shutdown signal,                        *)
(*   SpecLoop      run_continuous_loop.                                    *)
(*                                                                         *)
(* Text is modelled as a sequence of one-character strings, so that        *)
(* strip(), the digit filter of clean_number and the line format of the    *)
(* success/failed files are computed, not assumed.                         *)
(***************************************************************************)
EXTENDS Naturals, Integers, Sequences, FiniteSets, TLC

VARIABLES
    \* ---- BrowserManager._mlx_session ------------------------------------
    mlxPc,            \* position in _mlx_session: "none", "body", a cleanup
                      \* step of the finally clause, "returned" or "raised"
    mlxBody,          \* how the try body (lines 454-526) was left
    mlxBrowser,       \* BrowserManager._browser is not None
    mlxPlaywright,    \* BrowserManager._playwright is not None
    mlxProfileId,     \* BrowserManager._mlx_profile_id is not None
    mlxClient,        \* BrowserManager._mlx_client is not None
    mlxCleanup        \* history: the cleanup steps attempted, in order, each
                      \* with its outcome

mlxVars == <<mlxPc, mlxBody, mlxBrowser, mlxPlaywright, mlxProfileId,
             mlxClient, mlxCleanup>>

VARIABLES
    \* ---- AccountSaver ---------------------------------------------------
    accountsFile,     \* the accounts file of the day (_get_output_file):
                      \* whether it exists, and its text
    saver,            \* the save() calls in flight, one per task: where the
                      \* call stands, its account and its local `accounts`
    savedAccounts,    \* history: accounts whose save() has returned
    nSaves            \* history: number of save() calls made so far

saverVars == <<accountsFile, saver, savedAccounts, nSaves, mlxVars>>

VARIABLES
    \* ---- PhoneManager -------------------------------------------------
    sourceLines,      \* lines of the phone list file (phone_list_path)
    loaded,           \* PhoneManager._loaded
    allPhones,        \* PhoneManager._all_phones (PhoneNumber.number of each)
    successNumbers,   \* PhoneManager._success_numbers
    failedNumbers,    \* PhoneManager._failed_numbers
    successFile,      \* lines of data/success.txt
    failedFile,       \* lines of data/failed.txt
    pmOp,             \* the PhoneManager call that returned last, with its result
    committed,        \* history: numbers for which a commit has returned,
                      \*          as a set of <<number, flag>>
    nCommits,         \* history: number of commit calls made so far
    peer              \* a second PhoneManager (another process) on the same
                      \* phone list and the same two files: its _loaded,
                      \* _all_phones, _success_numbers, _failed_numbers and
                      \* the call of it that returned last

\* the persistent stores and their clients
pmVars == <<sourceLines, loaded, allPhones, successNumbers, failedNumbers,
            successFile, failedFile, pmOp, committed, nCommits, peer,
            saverVars>>

VARIABLES
    \* ---- one call of AirbnbSignupPage.wait_for_otp_screen -------------
    otpTimeout,       \* the timeout argument, in ms
    elapsed,          \* the local elapsed, in ms
    pageTextLower,    \* the local page_text_lower (Unbound until first set)
    otpRet,           \* "running", or how the call ended: "True", "False",
                      \* "raised"
    otpTick,          \* what the last poll tick observed and decided
    onlyInputSoFar    \* history: every tick so far showed nothing but a
                      \*          visible numeric-code input

VARIABLES
    \* ---- one call of a page step that walks a list of selectors ------
    selStep,          \* the method called ("none" when none is)
    selTried,         \* number of selectors of its list tried so far
    selActed,         \* the selectors (as indices) it has interacted with
    selResult         \* "idle", "running", "returned", or the exception
                      \* the call raised

selVars == <<selStep, selTried, selActed, selResult>>

\* the page object: its classifier and its selector steps
otpVars == <<otpTimeout, elapsed, pageTextLower, otpRet, otpTick,
             onlyInputSoFar, selVars>>

VARIABLES
    \* ---- SignupOrchestrator.run_single_signup, attempt after attempt --
    pageAttr,         \* the BrowserManager object answers `.page` (line 248)
    otpWaited,        \* history: ms the attempt has spent in step 5 waiting
                      \* for an OTP (callback, or profile form to appear)
    otpCallback,      \* the otp_callback argument is not None
    pc,               \* position in run_single_signup / _run_airbnb_signup
    attempt,          \* number of the running attempt (0 before the first)
    currentStep,      \* SignupOrchestrator._current_step
    phoneInUse,            \* the local phone of run_single_signup (None, a number)
    bmPlaywright,     \* BrowserManager._playwright is set
    bmBrowser,        \* BrowserManager._browser is set
    pending,          \* how the try block of _run_airbnb_signup was left:
                      \* the result being returned or the exception in flight
    result,           \* the SignupResult run_single_signup returned
    events,           \* history: steps, commits, saves and stop() calls of the attempt
    injected,         \* history: the call of this attempt that raised
    nextPhone         \* next_phone of run_continuous_loop (None, a number)

orchVars == <<pageAttr, otpWaited, otpCallback, pc, attempt, currentStep, phoneInUse,
              bmPlaywright, bmBrowser, pending, result, events, injected,
              nextPhone>>

vars == <<pmVars, otpVars, orchVars>>

-----------------------------------------------------------------------------
(* Bounds of the exploration.                                              *)

\* longest phone list file, in lines
MaxPhones == 2
\* most commit calls (mark_success / mark_failed / mark_used) explored
MaxCommits == 2
\* most attempts one orchestrator runs
MaxAttempts == 2

-----------------------------------------------------------------------------
(* Text helpers.                                                           *)

Digits == {"0", "1", "2", "3", "4", "5", "6", "7", "8", "9"}

\* Python's None, as a value comparable with a number
None == <<"None">>

Range(s) == {s[i] : i \in 1..Len(s)}

RECURSIVE LStrip(_)
LStrip(s) == IF s # <<>> /\ Head(s) = " " THEN LStrip(Tail(s)) ELSE s

RECURSIVE RStrip(_)
RStrip(s) ==
    IF s # <<>> /\ s[Len(s)] = " " THEN RStrip(SubSeq(s, 1, Len(s) - 1)) ELSE s

\* str.strip() on one line
Strip(s) == RStrip(LStrip(s))

IsDigit(c) == c \in Digits

\* PhoneNumber.clean_number: keep only the digits of a non-empty value.
\* The empty value raises ValueError; every other value is accepted, also a
\* value without any digit, which is cleaned to the empty string.
clean_number_keep_all(v) == v
clean_number(v) == SelectSeq(v, IsDigit)

clean_number_raises(v) == v = <<>>

\* raw lines a phone list can hold
RawLines == { <<"1">>, <<"2">>, <<"+", "1">>, <<" ", "2">>, <<"x">> }

\* numbers a caller can pass to the PhoneManager: PhoneNumber objects are
\* built by the same validator
PhoneUniverse == {clean_number(Strip(l)) : l \in RawLines}

RECURSIVE SeqsUpTo(_, _)
SeqsUpTo(S, n) ==
    IF n = 0 THEN {<<>>}
    ELSE LET shorter == SeqsUpTo(S, n - 1)
         IN  shorter \cup {Append(s, x) : s \in {t \in shorter : Len(t) = n - 1}, x \in S}

-----------------------------------------------------------------------------
(* PhoneManager.                                                           *)

\* _load_phone_list: strip each line, skip empty ones, build a PhoneNumber,
\* skip the lines whose validation raises ValueError
RECURSIVE LoadPhoneList(_)
LoadPhoneList(lines) ==
    IF lines = <<>> THEN <<>>
    ELSE LET number == Strip(Head(lines))
             rest   == LoadPhoneList(Tail(lines))
         IN  IF number = <<>> THEN rest
             ELSE IF clean_number_raises(number) THEN rest
             ELSE <<clean_number(number)>> \o rest

\* _load_numbers_from_file: the set of the non-empty stripped lines
LoadNumbersFromFile(file) ==
    {Strip(file[i]) : i \in 1..Len(file)} \ {<<>>}

\* _append_to_file: one line "<phone>\n" at the end of the file
AppendToFile(file, phone) == Append(file, phone)

\* _is_processed
IsProcessedSuccessOnly(phone_number, succ, fail) == phone_number \in succ
IsProcessed(phone_number, succ, fail) ==
    phone_number \in succ \/ phone_number \in fail

\* a scan that keeps the last number not processed instead of the first
RECURSIVE LastAvailable(_, _, _)
LastAvailable(phones, succ, fail) ==
    IF phones = <<>> THEN None
    ELSE LET rest == LastAvailable(Tail(phones), succ, fail)
         IN  IF rest # None THEN rest
             ELSE IF Head(phones) \notin succ \cup fail THEN Head(phones)
             ELSE None

\* the scan of get_next over _all_phones
RECURSIVE FirstAvailable(_, _, _)
FirstAvailable(phones, succ, fail) ==
    IF phones = <<>> THEN None
    ELSE IF ~IsProcessed(Head(phones), succ, fail) THEN Head(phones)
    ELSE FirstAvailable(Tail(phones), succ, fail)

\* len() of a terminal set, as available_count uses it
ProcessedCountLines(file) == Len(file)
ProcessedCount(file) == Cardinality(LoadNumbersFromFile(file))

\* available_count, computed from the files it re-reads
AvailableCount(phones, sfile, ffile) ==
    Len(phones) - (ProcessedCount(sfile) + ProcessedCount(ffile))

\* no second PhoneManager
NoPeer == [loaded |-> FALSE, allPhones |-> <<>>, successNumbers |-> {},
           failedNumbers |-> {},
           op |-> [op |-> "init", arg |-> None, ret |-> None, n |-> 0]]

\* load()
Load ==
    /\ ~loaded
    /\ allPhones' = LoadPhoneList(sourceLines)
    /\ successNumbers' = LoadNumbersFromFile(successFile)
    /\ failedNumbers' = LoadNumbersFromFile(failedFile)
    /\ loaded' = TRUE
    /\ pmOp' = [op |-> "load", arg |-> None, ret |-> None, raised |-> FALSE,
                avail |-> 0]
    /\ UNCHANGED <<saverVars, peer, sourceLines, successFile, failedFile, committed, nCommits>>
    /\ UNCHANGED <<otpVars, orchVars>>

\* get_next()
GetNextCall ==
    IF ~loaded
    THEN /\ pmOp' = [op |-> "get_next", arg |-> None, ret |-> None,
                     raised |-> TRUE, avail |-> 0]
         /\ UNCHANGED <<saverVars, peer, sourceLines, loaded, allPhones, successNumbers,
                        failedNumbers, successFile, failedFile, committed,
                        nCommits>>
    ELSE /\ successNumbers' = LoadNumbersFromFile(successFile)
         /\ failedNumbers' = LoadNumbersFromFile(failedFile)
         /\ pmOp' = [op |-> "get_next", arg |-> None,
                     ret |-> FirstAvailable(allPhones, successNumbers',
                                            failedNumbers'),
                     raised |-> FALSE, avail |-> 0]
         /\ UNCHANGED <<saverVars, peer, sourceLines, loaded, allPhones, successFile,
                        failedFile, committed, nCommits>>

\* a commit called before load(): RuntimeError, nothing written
CommitNotLoaded(name, phone) ==
    /\ pmOp' = [op |-> name, arg |-> phone, ret |-> None, raised |-> TRUE,
                avail |-> 0]
    /\ nCommits' = nCommits + 1
    /\ UNCHANGED <<saverVars, peer, sourceLines, loaded, allPhones, successNumbers,
                   failedNumbers, successFile, failedFile, committed>>

\* mark_success(phone): add to the set, append to the file, then
\* available_count re-reads both files
MarkSuccessAs(name, phone) ==
    IF ~loaded THEN CommitNotLoaded(name, phone)
    ELSE /\ successFile' = AppendToFile(successFile, phone)
         /\ successNumbers' = LoadNumbersFromFile(successFile')
         /\ failedNumbers' = LoadNumbersFromFile(failedFile)
         /\ pmOp' = [op |-> name, arg |-> phone, ret |-> None,
                     raised |-> FALSE,
                     avail |-> AvailableCount(allPhones, successFile',
                                              failedFile)]
         /\ committed' = committed \cup {<<phone, TRUE>>}
         /\ nCommits' = nCommits + 1
         /\ UNCHANGED <<saverVars, peer, sourceLines, loaded, allPhones, failedFile>>

\* mark_failed(phone)
MarkFailedAs(name, phone) ==
    IF ~loaded THEN CommitNotLoaded(name, phone)
    ELSE /\ failedFile' = AppendToFile(failedFile, phone)
         /\ failedNumbers' = LoadNumbersFromFile(failedFile')
         /\ successNumbers' = LoadNumbersFromFile(successFile)
         /\ pmOp' = [op |-> name, arg |-> phone, ret |-> None,
                     raised |-> FALSE,
                     avail |-> AvailableCount(allPhones, successFile,
                                              failedFile')]
         /\ committed' = committed \cup {<<phone, FALSE>>}
         /\ nCommits' = nCommits + 1
         /\ UNCHANGED <<saverVars, peer, sourceLines, loaded, allPhones, successFile>>

GetNext ==
    /\ GetNextCall
    /\ UNCHANGED <<otpVars, orchVars>>

MarkSuccess ==
    /\ nCommits < MaxCommits
    /\ \E phone \in PhoneUniverse : MarkSuccessAs("mark_success", phone)
    /\ UNCHANGED <<otpVars, orchVars>>

MarkFailed ==
    /\ nCommits < MaxCommits
    /\ \E phone \in PhoneUniverse : MarkFailedAs("mark_failed", phone)
    /\ UNCHANGED <<otpVars, orchVars>>

\* mark_used(phone, success)
MarkUsed ==
    /\ nCommits < MaxCommits
    /\ \E phone \in PhoneUniverse, success \in BOOLEAN :
          IF success THEN MarkSuccessAs("mark_used", phone)
                     ELSE MarkFailedAs("mark_used", phone)
    /\ UNCHANGED <<otpVars, orchVars>>

\* mark_success / mark_failed when the append fails: _append_to_file
\* catches the exception and logs it (lines 128-129), the file is left as
\* it was, available_count re-reads both files and the call returns
CommitWriteFails ==
    /\ loaded
    /\ nCommits < MaxCommits
    /\ \E phone \in PhoneUniverse, success \in BOOLEAN :
          /\ successNumbers' = LoadNumbersFromFile(successFile)
          /\ failedNumbers' = LoadNumbersFromFile(failedFile)
          /\ pmOp' = [op |-> IF success THEN "mark_success" ELSE "mark_failed",
                      arg |-> phone, ret |-> None, raised |-> FALSE,
                      avail |-> AvailableCount(allPhones, successFile,
                                               failedFile)]
          /\ committed' = committed \cup {<<phone, success>>}
    /\ nCommits' = nCommits + 1
    /\ UNCHANGED <<saverVars, peer, sourceLines, loaded, allPhones, successFile,
                   failedFile>>
    /\ UNCHANGED <<otpVars, orchVars>>

\* calls made on the second PhoneManager
MaxPeerCalls == 2

\* save() calls of AccountSaver, over both tasks
MaxSaves == 3

\* what get_next takes a terminal set to be: the file re-read (lines
\* 146-147), not the set held in memory
PeerStoreViewCached(file, cached) == cached
PeerStoreView(file, cached) == LoadNumbersFromFile(file)

\* get_next() of the second PhoneManager
PeerGetNext ==
    /\ peer.loaded
    /\ peer.op.n < MaxPeerCalls
    /\ LET succ == PeerStoreView(successFile, peer.successNumbers)
           fail == PeerStoreView(failedFile, peer.failedNumbers)
       IN  peer' = [peer EXCEPT
                      !.successNumbers = succ,
                      !.failedNumbers = fail,
                      !.op = [op |-> "get_next", arg |-> None,
                              ret |-> FirstAvailable(peer.allPhones, succ, fail),
                              n |-> peer.op.n + 1]]
    /\ UNCHANGED <<sourceLines, loaded, allPhones, successNumbers,
                   failedNumbers, successFile, failedFile, pmOp, committed,
                   nCommits, saverVars>>
    /\ UNCHANGED <<otpVars, orchVars>>

\* mark_used(phone, success) of the second PhoneManager: the append goes to
\* the shared file, available_count re-reads both
PeerMarkUsed ==
    /\ peer.loaded
    /\ peer.op.n < MaxPeerCalls
    /\ nCommits < MaxCommits
    /\ nCommits' = nCommits + 1
    /\ \E phone \in PhoneUniverse, success \in BOOLEAN :
          /\ IF success
             THEN /\ successFile' = AppendToFile(successFile, phone)
                  /\ UNCHANGED failedFile
             ELSE /\ failedFile' = AppendToFile(failedFile, phone)
                  /\ UNCHANGED successFile
          /\ peer' = [peer EXCEPT
                        !.successNumbers = LoadNumbersFromFile(successFile'),
                        !.failedNumbers = LoadNumbersFromFile(failedFile'),
                        !.op = [op |-> "mark_used", arg |-> phone, ret |-> None,
                                n |-> peer.op.n + 1]]
          /\ committed' = committed \cup {<<phone, success>>}
    /\ UNCHANGED <<sourceLines, loaded, allPhones, successNumbers,
                   failedNumbers, pmOp, saverVars>>
    /\ UNCHANGED <<otpVars, orchVars>>

-----------------------------------------------------------------------------
(* AccountSaver (src/src/services/account_saver.py).                       *)
(*                                                                         *)
(* The text of the accounts file is a sequence of tokens: the two brackets *)
(* of the JSON list and one token per account in between.  Two tasks call  *)
(* save(); each await of save() is a point where the other task may run.   *)

Savers == 1..2

JsonOpen == <<"[">>
JsonClose == <<"]">>

\* the account of the n-th save() call (account.to_export_dict(), line 66)
Account(n) == <<"account", n>>

IsAccount(token) == token \notin {JsonOpen, JsonClose}

\* json.dumps(accounts, indent=2) (line 89)
JsonDumps(accounts) == <<JsonOpen>> \o accounts \o <<JsonClose>>

\* whether json.loads(text) (line 82) returns a list
JsonDecodes(text) ==
    /\ Len(text) >= 2
    /\ text[1] = JsonOpen
    /\ text[Len(text)] = JsonClose
    /\ \A k \in 2..(Len(text) - 1) : IsAccount(text[k])

\* json.loads(text), for a text that decodes
JsonLoads(text) == SubSeq(text, 2, Len(text) - 1)

\* _load_existing(file_path) (lines 74-84): [] when the file does not
\* exist or its text does not decode
LoadExisting(file) ==
    IF ~file.exists THEN <<>>
    ELSE IF JsonDecodes(file.text) THEN JsonLoads(file.text)
    ELSE <<>>

\* aiofiles.open(file_path, "w") (line 88): the file is created or
\* truncated as it is opened
OpenedForWrite(file) == [exists |-> TRUE, text |-> <<>>]

\* f.write(text) (line 89) through a handle opened by OpenedForWrite, whose
\* position is 0: the text replaces the first Len(text) tokens of the file
WrittenAtStart(file, text) ==
    [exists |-> TRUE,
     text |-> text \o SubSeq(file.text, Len(text) + 1, Len(file.text))]

NoSave == [pc |-> "idle", account |-> Account(0), accounts |-> <<>>]

\* _mlx_session has not been entered
IdleMlx ==
    /\ mlxPc = "none"
    /\ mlxBody = "none"
    /\ mlxBrowser = FALSE
    /\ mlxPlaywright = FALSE
    /\ mlxProfileId = FALSE
    /\ mlxClient = FALSE
    /\ mlxCleanup = <<>>

\* no save() call has been made
IdleSavers ==
    /\ accountsFile = [exists |-> FALSE, text |-> <<>>]
    /\ saver = [i \in Savers |-> NoSave]
    /\ savedAccounts = {}
    /\ nSaves = 0
    /\ IdleMlx

SaverFrame ==
    /\ UNCHANGED mlxVars
    /\ UNCHANGED <<sourceLines, loaded, allPhones, successNumbers,
                   failedNumbers, successFile, failedFile, pmOp, committed,
                   nCommits, peer>>
    /\ UNCHANGED <<otpVars, orchVars>>

\* save(account), lines 61-66: the existing accounts are loaded and the new
\* one is appended to the local list
SaveLoad(i) ==
    /\ saver[i].pc = "idle"
    /\ nSaves < MaxSaves
    /\ nSaves' = nSaves + 1
    /\ saver' = [saver EXCEPT ![i] =
                   [pc |-> "loaded", account |-> Account(nSaves + 1),
                    accounts |-> Append(LoadExisting(accountsFile),
                                        Account(nSaves + 1))]]
    /\ UNCHANGED <<accountsFile, savedAccounts>>
    /\ SaverFrame

\* save(account), line 69, first await of _save_to_file: the file is opened
SaveOpen(i) ==
    /\ saver[i].pc = "loaded"
    /\ accountsFile' = OpenedForWrite(accountsFile)
    /\ saver' = [saver EXCEPT ![i].pc = "opened"]
    /\ UNCHANGED <<savedAccounts, nSaves>>
    /\ SaverFrame

\* save(account), line 69, second await of _save_to_file: the list is
\* written, the file is closed and save() returns
SaveWrite(i) ==
    /\ saver[i].pc = "opened"
    /\ accountsFile' = WrittenAtStart(accountsFile, JsonDumps(saver[i].accounts))
    /\ saver' = [saver EXCEPT ![i].pc = "idle"]
    /\ savedAccounts' = savedAccounts \cup {saver[i].account}
    /\ UNCHANGED nSaves
    /\ SaverFrame

-----------------------------------------------------------------------------
(* AirbnbSignupPage.wait_for_otp_screen.                                   *)
(*                                                                         *)
(* The body text of the page is a set of text fragments; a phrase occurs   *)
(* in the text when it is a substring of one of the fragments.  Python's   *)
(* `in` is case-sensitive, so lower() is modelled on the fragments.        *)

\* longest timeout argument explored, in half check intervals
MaxTimeoutSteps == 4

\* check_interval, in ms
check_interval == 1000

\* the default of the timeout argument, in ms
DefaultOtpTimeout == 30000

failure_texts == <<
    "you've reached the max confirmation attempts",
    "max confirmation attempts",
    "try again in 24 hours",
    "phone number isn't supported",
    "isn't supported",
    "not supported",
    "sign up using a different method",
    "different method",
    "too many attempts",
    "rate limit",
    "temporarily blocked",
    "try again later",
    "something went wrong",
    "we couldn't send",
    "couldn't send a code",
    "unable to send",
    "invalid phone",
    "phone number is invalid" >>

captcha_indicators == <<
    "iframe[src*=\"captcha\"]",
    "iframe[src*=\"arkoselabs\"]",
    "iframe[src*=\"funcaptcha\"]",
    "#captcha",
    "[data-testid=\"captcha\"]",
    "div:has-text(\"verify you're human\")",
    "div:has-text(\"security check\")" >>

otp_success_texts == <<
    "enter the code we've sent via sms to",
    "enter the code we sent over sms to",
    "enter the code we sent via sms to",
    "we've sent via sms",
    "sent via sms to +" >>

otp_indicators == <<
    "input[inputmode=\"numeric\"]",
    "input[autocomplete=\"one-time-code\"]" >>

\* fragments a page body can show
PageFragments == {
    "Too many attempts",
    "phone number isn't supported",
    "Rate limit exceeded",
    "Enter the code we've sent via SMS to",
    "confirm your number" }

\* elements a page can show
PageElements == { "#captcha", "input[inputmode=\"numeric\"]" }

\* str.lower() on one fragment
LowerFragment(f) ==
    CASE f = "Too many attempts" -> "too many attempts"
      [] f = "Rate limit exceeded" -> "rate limit exceeded"
      [] f = "Try again in 24 hours" -> "try again in 24 hours"
      [] f = "Enter the code we've sent via SMS to" ->
             "enter the code we've sent via sms to"
      [] OTHER -> f

\* str.lower() on the body text
LowerKeepCase(text) == text
Lower(text) == {LowerFragment(f) : f \in text}

\* the phrases of the lists that are substrings of a fragment
\* (case-sensitive, as Python's `in`)
PhrasesIn(f) ==
    CASE f = "too many attempts" -> {"too many attempts"}
      [] f = "phone number isn't supported" ->
             {"phone number isn't supported", "isn't supported"}
      [] f = "rate limit exceeded" -> {"rate limit"}
      [] f = "enter the code we've sent via sms to" ->
             {"enter the code we've sent via sms to", "we've sent via sms"}
      [] OTHER -> {}

\* phrase in text
Contains(text, phrase) == \E f \in text : phrase \in PhrasesIn(f)

\* no phrase of a list occurs
NoMatch == ""

\* the first phrase of a list that occurs in the text, or NoMatch
RECURSIVE FirstMatch(_, _)
FirstMatch(phrases, text) ==
    IF phrases = <<>> THEN NoMatch
    ELSE IF Contains(text, Head(phrases)) THEN Head(phrases)
    ELSE FirstMatch(Tail(phrases), text)

\* some selector of the list is visible (is_visible returned True for it;
\* a selector whose lookup raises is skipped by the bare except)
AnyVisible(selectors, visible) == \E i \in 1..Len(selectors) : selectors[i] \in visible

\* page_text_lower before its first assignment
Unbound == {"<unbound local>"}

\* the read that did not happen or that raised
NotRead == {"<not read>"}

\* the backup check of one tick (lines 478-507), given the text the re-read
\* returns (NotRead when the re-read raises: the bare except goes on):
\* the success phrases are looked up first, then the failure phrases
RecheckWeakEvidence(recheck) ==
    IF recheck = NotRead THEN [ret |-> "running", decision |-> "pending"]
    ELSE IF FirstMatch(failure_texts, Lower(recheck)) # NoMatch
         THEN [ret |-> "False", decision |-> "recheck_error"]
    ELSE [ret |-> "True", decision |-> "recheck_success"]
Recheck(recheck) ==
    IF recheck = NotRead THEN [ret |-> "running", decision |-> "pending"]
    ELSE IF FirstMatch(otp_success_texts, Lower(recheck)) # NoMatch
         THEN [ret |-> "True", decision |-> "recheck_success"]
    ELSE IF FirstMatch(failure_texts, Lower(recheck)) # NoMatch
         THEN [ret |-> "False", decision |-> "recheck_error"]
    ELSE [ret |-> "running", decision |-> "pending"]

\* steps 2 and 3 of one tick and its backup check (lines 454-507), given
\* page_text_lower as step 1 left it
AfterFailureCheckSuccessFirst(ptl, visible, recheck) ==
    IF ptl # Unbound /\ FirstMatch(otp_success_texts, ptl) # NoMatch
    THEN [ret |-> "True", decision |-> "success_text"]
    ELSE IF AnyVisible(captcha_indicators, visible)
    THEN [ret |-> "False", decision |-> "captcha"]
    ELSE IF ptl = Unbound
    THEN [ret |-> "raised", decision |-> "unbound"]
    ELSE IF AnyVisible(otp_indicators, visible) THEN Recheck(recheck)
    ELSE [ret |-> "running", decision |-> "pending"]
AfterFailureCheck(ptl, visible, recheck) ==
    IF AnyVisible(captcha_indicators, visible)
    THEN [ret |-> "False", decision |-> "captcha"]
    ELSE IF ptl = Unbound
    THEN [ret |-> "raised", decision |-> "unbound"]
    ELSE IF FirstMatch(otp_success_texts, ptl) # NoMatch
    THEN [ret |-> "True", decision |-> "success_text"]
    ELSE IF AnyVisible(otp_indicators, visible) THEN Recheck(recheck)
    ELSE [ret |-> "running", decision |-> "pending"]

\* page_text_lower after step 1: the text just read, or the old value when
\* the read raised (the except of line 451 only logs)
TextAfterRead(read, stale) == IF read = NotRead THEN stale ELSE Lower(read)

\* one poll tick (lines 436-511): read is what inner_text('body') returns in
\* step 1, visible the elements for which is_visible returns True, recheck
\* what inner_text('body') returns in the backup check
ClassifyTick(read, visible, recheck, stale) ==
    LET ptl == TextAfterRead(read, stale)
    IN  IF read # NotRead /\ FirstMatch(failure_texts, ptl) # NoMatch
        THEN [ret |-> "False", decision |-> "failure_text", ptl |-> ptl]
        ELSE LET r == AfterFailureCheck(ptl, visible, recheck)
             IN  [ret |-> r.ret, decision |-> r.decision, ptl |-> ptl]

\* the texts the tick consulted: the backup check re-reads the body only
\* when steps 1-3 did not return and an OTP input is visible
RecheckReached(read, visible, stale) ==
    LET ptl == TextAfterRead(read, stale)
    IN  /\ ~(read # NotRead /\ FirstMatch(failure_texts, ptl) # NoMatch)
        /\ ~AnyVisible(captcha_indicators, visible)
        /\ ptl # Unbound
        /\ FirstMatch(otp_success_texts, ptl) = NoMatch
        /\ AnyVisible(otp_indicators, visible)

\* the page shows a visible numeric-code input and nothing else the
\* classifier reacts to
OnlyInput(texts, visible) ==
    /\ AnyVisible(otp_indicators, visible)
    /\ ~AnyVisible(captcha_indicators, visible)
    /\ \A t \in texts :
          /\ FirstMatch(failure_texts, Lower(t)) = NoMatch
          /\ FirstMatch(otp_success_texts, Lower(t)) = NoMatch

\* `while elapsed < timeout` (line 436)
LoopGuardInclusive(e, timeout) == e <= timeout
LoopGuard(e, timeout) == e < timeout

\* the poll ticks of the while loop; reads is the set of results a body read
\* can have
PollTickWith(reads) ==
    /\ otpRet = "running"
    /\ LoopGuard(elapsed, otpTimeout)
    /\ \E read \in reads, visible \in SUBSET PageElements, recheck0 \in reads :
          LET reached == RecheckReached(read, visible, pageTextLower)
              recheck == IF reached THEN recheck0 ELSE NotRead
              r       == ClassifyTick(read, visible, recheck, pageTextLower)
              texts   == ({read} \cup (IF reached THEN {recheck} ELSE {}))
                            \ {NotRead}
          IN  /\ recheck0 = NotRead => reached
              /\ pageTextLower' = r.ptl
              /\ otpRet' = r.ret
              /\ elapsed' = IF r.ret = "running" THEN elapsed + check_interval
                            ELSE elapsed
              /\ otpTick' = [n |-> otpTick.n + 1, read |-> read,
                             visible |-> visible, reached |-> reached,
                             recheck |-> recheck, decision |-> r.decision]
              /\ onlyInputSoFar' = (onlyInputSoFar /\ OnlyInput(texts, visible))
    /\ UNCHANGED <<otpTimeout, selVars>>
    /\ UNCHANGED <<pmVars, orchVars>>

\* a tick on a page whose body can be read
PollTick == PollTickWith(SUBSET PageFragments)

\* a tick at which a read of the body can raise
PollTickReadFails == PollTickWith((SUBSET PageFragments) \cup {NotRead})

\* the loop guard fails: line 514-515
OtpTimeoutReturn ==
    /\ otpRet = "running"
    /\ ~LoopGuard(elapsed, otpTimeout)
    /\ otpRet' = "False"
    /\ otpTick' = [otpTick EXCEPT !.decision = "timeout"]
    /\ UNCHANGED <<otpTimeout, elapsed, pageTextLower, onlyInputSoFar, selVars>>
    /\ UNCHANGED <<pmVars, orchVars>>

NoTick == [n |-> 0, read |-> NotRead, visible |-> {}, reached |-> FALSE,
           recheck |-> NotRead, decision |-> "none"]

\* get_error_message() (signup_page.py lines 734-777)
error_patterns == <<
    "max confirmation attempts",
    "Try again in 24 hours",
    "phone number isn't supported",
    "sign up using a different method",
    "too many attempts",
    "temporarily blocked",
    "try again later",
    "invalid phone",
    "verify you're human" >>

\* what the first visible error element yields (lines 769-773): its text,
\* or nothing when no error element is visible or its text is empty
ErrorElementTexts == {NoMatch, "Please try again"}

\* the first pattern whose lower-case form occurs in the text (lines
\* 753-755), or NoMatch
RECURSIVE FirstPattern(_, _)
FirstPattern(patterns, text) ==
    IF patterns = <<>> THEN NoMatch
    ELSE IF Contains(text, LowerFragment(Head(patterns))) THEN Head(patterns)
    ELSE FirstPattern(Tail(patterns), text)

\* get_error_message() on a page with the given body text and error element
GetErrorMessage(body, element_text) ==
    LET pattern == FirstPattern(error_patterns, Lower(body))
    IN  IF pattern # NoMatch THEN pattern ELSE element_text

\* `error_msg or "OTP screen not shown"` (line 355)
ErrorOrDefault(error_msg) ==
    IF error_msg = NoMatch THEN "OTP screen not shown" ELSE error_msg

\* the body text the classifier read last
LastBodyRead(tick) ==
    IF tick.recheck # NotRead THEN tick.recheck
    ELSE IF tick.read # NotRead THEN tick.read
    ELSE {}

-----------------------------------------------------------------------------
(* The steps of AirbnbSignupPage that walk a list of candidate selectors   *)
(* (src/src/pages/airbnb/signup_page.py).                                  *)

modal_indicators == <<
    "[data-testid=\"login-pane\"]",
    "[data-testid=\"auth-form\"]",
    "input[data-testid=\"login-signup-phonenumber\"]",
    "select[data-testid=\"login-signup-countrycode\"]",
    "button[data-testid=\"signup-login-submit-btn\"]",
    "h2:has-text(\"Welcome to Airbnb\")",
    "[role=\"dialog\"]",
    "input[type=\"tel\"]" >>

phone_selectors == <<
    "input[data-testid=\"login-signup-phonenumber\"]",
    "input[type=\"tel\"]",
    "input[name*=\"phone\"]",
    "input[autocomplete=\"tel-national\"]",
    "input[autocomplete=\"tel\"]" >>

continue_selectors == <<
    "button[data-testid=\"signup-login-submit-btn\"]",
    "button:has-text(\"Continue\")",
    "button[type=\"submit\"]" >>

SelectorSteps == {"wait_for_signup_modal", "enter_phone_number", "click_continue"}

\* the list a step walks
Candidates(step) ==
    CASE step = "wait_for_signup_modal" -> modal_indicators
      [] step = "enter_phone_number" -> phone_selectors
      [] step = "click_continue" -> continue_selectors

\* what trying one selector can come to: the element is not there
\* (is_visible returns False, wait_for_selector times out), the step's
\* interaction with it completes, the interaction raises playwright's
\* TimeoutError, or it raises another exception.  wait_for_signup_modal
\* only waits for the element: finding it is all its interaction.
CandidateOutcomes(step) ==
    IF step = "wait_for_signup_modal" THEN {"absent", "done", "error"}
    ELSE {"absent", "done", "timeout", "error"}

\* what the step raises once its list is used up (lines 75, 332, 361)
RaisedWhenExhausted(step) ==
    IF step = "wait_for_signup_modal" THEN "PlaywrightTimeout"
    ELSE "RuntimeError"

\* no selector step is running
IdleSelectors ==
    /\ selStep = "none"
    /\ selTried = 0
    /\ selActed = <<>>
    /\ selResult = "idle"

SelectorFrame ==
    /\ UNCHANGED <<otpTimeout, elapsed, pageTextLower, otpRet, otpTick,
                   onlyInputSoFar>>
    /\ UNCHANGED <<pmVars, orchVars>>

\* one pass of the for loop over the selectors (lines 66-73, 317-330,
\* 346-359): the `except PlaywrightTimeout: continue` catches the timeout
\* alone
TryCandidate ==
    /\ selResult = "running"
    /\ selTried < Len(Candidates(selStep))
    /\ selTried' = selTried + 1
    /\ \E outcome \in CandidateOutcomes(selStep) :
          /\ selActed' = IF outcome = "absent" THEN selActed
                         ELSE Append(selActed, selTried + 1)
          /\ selResult' = CASE outcome = "done" -> "returned"
                             [] outcome = "error" -> "Exception"
                             [] OTHER -> "running"
    /\ UNCHANGED selStep
    /\ SelectorFrame

\* the list is used up: the raise after the loop
CandidatesExhausted ==
    /\ selResult = "running"
    /\ selTried = Len(Candidates(selStep))
    /\ selResult' = RaisedWhenExhausted(selStep)
    /\ UNCHANGED <<selStep, selTried, selActed>>
    /\ SelectorFrame

-----------------------------------------------------------------------------
(* SignupOrchestrator.                                                     *)

\* exceptions a call into the page, the browser or a service can raise:
\* playwright's TimeoutError and any other Exception
ExcKinds == {"PlaywrightTimeout", "Exception"}

NoResult == [success |-> FALSE, step |-> "none", error |-> "none"]

NoPending == [kind |-> "none", result |-> NoResult, exc |-> "none"]

\* _create_result
CreateResult(success, step, error) ==
    [success |-> success, step |-> step, error |-> error]

\* the two except clauses of _run_airbnb_signup (lines 474-489): both return
\* a failed result carrying _current_step
InnerExcept(step, exc) ==
    [kind |-> "result",
     result |-> CreateResult(FALSE, step,
                   IF exc = "PlaywrightTimeout" THEN "Timeout: e" ELSE "str(e)"),
     exc |-> "none"]

\* a return statement inside the try block
ReturnFromTry(res) == [kind |-> "result", result |-> res, exc |-> "none"]

\* where control goes when the try block of _run_airbnb_signup is left with
\* a return or an exception: the finally clause (lines 490-492)
AfterTryNoFinally(p) ==
    IF p.kind = "result" /\ ~p.result.success THEN "handle_result" ELSE "finally"
AfterTry(p) == "finally"

\* the except clause of run_single_signup (lines 195-204): the exception is
\* turned into a failed result; Reraised would let it reach the caller
OuterExceptReraises(step) ==
    [escaped |-> TRUE, result |-> NoResult]
OuterExceptOutcome(step) ==
    [escaped |-> FALSE, result |-> CreateResult(FALSE, step, "str(e)")]

\* a call of the try block raises: the matching except clause builds the
\* result, the finally clause follows
RaiseInTry(call, exc, step) ==
    /\ pending' = InnerExcept(step, exc)
    /\ pc' = AfterTry(pending')
    /\ injected' = call

\* the step of the result returned when get_next() gave None (line 143):
\* SignupStep.INITIALIZED, not self._current_step
NoPhoneStepCurrent(step) == step
NoPhoneStep(step) == "initialized"

\* run_single_signup entered: get_next() (lines 136-146).  events lists what
\* the attempt has done so far: "enter" (_run_airbnb_signup entered), "stop"
\* (BrowserManager.stop() invoked), "commit_success" / "commit_failed"
\* (mark_used(phone, True) / mark_failed(phone) returned), "save" /
\* "save_raised" (AccountSaver.save); injected names the call that raised.
StartAttempt ==
    /\ pc \in {"idle", "peeked"}
    /\ attempt < MaxAttempts
    /\ attempt' = attempt + 1
    /\ GetNextCall
    /\ phoneInUse' = pmOp'.ret
    /\ events' = <<>>
    /\ injected' = "none"
    /\ pending' = NoPending
    /\ IF pmOp'.ret = None
       THEN /\ result' = CreateResult(FALSE, NoPhoneStep(currentStep),
                                      "No available phone numbers")
            /\ pc' = "returned"
       ELSE /\ result' = NoResult
            /\ pc' = "generate_profile"
    /\ otpWaited' = 0
    /\ UNCHANGED <<pageAttr, otpCallback, nextPhone, currentStep, bmPlaywright, bmBrowser>>
    /\ UNCHANGED otpVars

\* the frame of a step of the attempt that touches neither the PhoneManager
\* nor the browser handles
StepFrame ==
    /\ UNCHANGED <<pageAttr, otpWaited, otpCallback, nextPhone, attempt, phoneInUse, result, events>>
    /\ UNCHANGED <<bmPlaywright, bmBrowser>>
    /\ UNCHANGED <<pmVars, otpVars>>

\* the same for a step that is recorded in events
RecordedStepFrame ==
    /\ UNCHANGED <<pageAttr, otpWaited, otpCallback, nextPhone, attempt, phoneInUse, result>>
    /\ UNCHANGED <<bmPlaywright, bmBrowser>>
    /\ UNCHANGED <<pmVars, otpVars>>

\* the same for step 5, where the attempt waits for the OTP
OtpStepFrame ==
    /\ UNCHANGED <<pageAttr, otpCallback, nextPhone, attempt, phoneInUse, result>>
    /\ UNCHANGED <<bmPlaywright, bmBrowser>>
    /\ UNCHANGED <<pmVars, otpVars>>

\* the timeout of the wait for the profile form in step 5, in ms (line 397)
manual_otp_timeout == 120000

\* wait_for_profile_form (signup_page.py lines 603-608)
profile_indicators == <<
    "input[name=\"firstName\"]",
    "input[autocomplete=\"given-name\"]",
    "input[placeholder*=\"First name\"]",
    "div:has-text(\"Finish signing up\")" >>

\* the timeout wait_for_profile_form gives each indicator (line 612)
IndicatorTimeout(timeout) == timeout \div Len(profile_indicators)

\* how long a call that has no timeout is followed, in units of
\* IndicatorTimeout(manual_otp_timeout)
MaxOtpWaitSteps == 5

\* how long `await otp_callback(phone.formatted)` (line 370) can take: the
\* call has no timeout
CallbackWaits ==
    {w * IndicatorTimeout(manual_otp_timeout) : w \in 0..MaxOtpWaitSteps}

\* what an otp_callback can return: nothing (no_otp_callback of
\* airbnb_runner.py returns "") or a code
OtpCodes == {"", "123456"}

\* `if otp_code:` (line 372)
CodeReceivedAlways(otp_code) == TRUE
CodeReceived(otp_code) == otp_code # ""

\* data_generator.generate_profile() (line 159), then the BrowserManager is
\* constructed (lines 228-240)
GenerateProfile ==
    /\ pc = "generate_profile"
    /\ \/ /\ pc' = "start_browser"
          /\ events' = Append(events, "enter")
          /\ UNCHANGED <<injected, pending>>
       \/ /\ pc' = "outer_except"
          /\ injected' = "generate_profile"
          /\ pending' = [kind |-> "exc", result |-> NoResult, exc |-> "Exception"]
          /\ UNCHANGED events
    /\ UNCHANGED <<pageAttr, otpWaited, otpCallback, nextPhone, attempt, phoneInUse, result, currentStep>>
    /\ UNCHANGED <<bmPlaywright, bmBrowser>>
    /\ UNCHANGED <<pmVars, otpVars>>

\* browser_manager.start() (line 247; BrowserManager.start, lines 122-184):
\* it can raise before Playwright is started, or at the launch of the browser
BrowserStart ==
    /\ pc = "start_browser"
    /\ \/ /\ bmPlaywright' = TRUE
          /\ bmBrowser' = TRUE
          /\ pc' = "get_page"
          /\ UNCHANGED <<injected, pending>>
       \/ \E exc \in ExcKinds, started \in BOOLEAN :
             /\ bmPlaywright' = started
             /\ bmBrowser' = FALSE
             /\ RaiseInTry("start", exc, currentStep)
    /\ UNCHANGED <<pageAttr, otpWaited, otpCallback, nextPhone, attempt, phoneInUse, result, events,
                   currentStep>>
    /\ UNCHANGED <<pmVars, otpVars>>

\* page = browser_manager.page (line 248): AttributeError when the manager
\* has no such attribute
GetPage ==
    /\ pc = "get_page"
    /\ IF pageAttr
       THEN /\ pc' = "navigate"
            /\ UNCHANGED <<injected, pending>>
       ELSE RaiseInTry("page", "Exception", currentStep)
    /\ UNCHANGED currentStep
    /\ StepFrame

\* step 1 (lines 260-274)
NavigateToSignup ==
    /\ pc = "navigate"
    /\ \/ /\ currentStep' = "navigated_to_signup"
          /\ pc' = "wait_for_signup_modal"
          /\ UNCHANGED <<injected, pending>>
       \/ \E exc \in ExcKinds :
             /\ currentStep' = "initialized"
             /\ RaiseInTry("navigate_to_signup", exc, "initialized")
    /\ StepFrame

\* step 2, wait_for_signup_modal (lines 284-296): its PlaywrightTimeout is
\* caught on the spot and returns a failed result
WaitForSignupModal ==
    /\ pc = "wait_for_signup_modal"
    /\ \/ /\ pc' = "select_phone_signup"
          /\ UNCHANGED <<injected, pending>>
       \/ /\ pending' = ReturnFromTry(CreateResult(FALSE, currentStep,
                                         "Signup form did not appear"))
          /\ pc' = AfterTry(pending')
          /\ injected' = "wait_for_signup_modal"
       \/ RaiseInTry("wait_for_signup_modal", "Exception", currentStep)
    /\ UNCHANGED currentStep
    /\ StepFrame

\* step 2, select_phone_signup (lines 300-304)
SelectPhoneSignup ==
    /\ pc = "select_phone_signup"
    /\ \/ /\ pc' = "enter_phone_number"
          /\ UNCHANGED <<injected, pending>>
       \/ \E exc \in ExcKinds : RaiseInTry("select_phone_signup", exc, currentStep)
    /\ UNCHANGED currentStep
    /\ StepFrame

\* step 3, enter_phone_number (lines 312-317)
EnterPhoneNumber ==
    /\ pc = "enter_phone_number"
    /\ currentStep' = "phone_entered"
    /\ \/ /\ pc' = "click_continue"
          /\ UNCHANGED <<injected, pending>>
       \/ \E exc \in ExcKinds : RaiseInTry("enter_phone_number", exc, "phone_entered")
    /\ StepFrame

\* step 3, click_continue (lines 320-323)
ClickContinue ==
    /\ pc = "click_continue"
    /\ \/ /\ pc' = "has_error"
          /\ UNCHANGED <<injected, pending>>
       \/ \E exc \in ExcKinds : RaiseInTry("click_continue", exc, currentStep)
    /\ UNCHANGED currentStep
    /\ StepFrame

\* step 3, has_error (lines 326-335)
CheckPhoneError ==
    /\ pc = "has_error"
    /\ \/ /\ pc' = "wait_for_otp_screen"
          /\ UNCHANGED <<injected, pending>>
       \/ \E msg \in {"error_msg", "Phone number rejected"} :
             /\ pending' = ReturnFromTry(CreateResult(FALSE, currentStep, msg))
             /\ pc' = AfterTry(pending')
             /\ UNCHANGED injected
       \/ \E exc \in ExcKinds : RaiseInTry("has_error", exc, currentStep)
    /\ UNCHANGED currentStep
    /\ StepFrame

\* `if not otp_received:` (line 348)
OtpReceivedAlways(otp_received) == TRUE
OtpReceived(otp_received) == otp_received

\* step 4 (lines 343-357): wait_for_otp_screen returns True or False, or
\* raises.  events records what it returned: "otp_screen" for True,
\* "no_otp_screen" for False.  After False, get_error_message() yields a
\* message, yields nothing, or raises.
WaitForOtpScreen ==
    /\ pc = "wait_for_otp_screen"
    /\ currentStep' = "otp_requested"
    /\ \/ \E otp_received \in BOOLEAN :
             /\ events' = Append(events, IF otp_received THEN "otp_screen"
                                         ELSE "no_otp_screen")
             /\ IF OtpReceived(otp_received)
                THEN /\ pc' = IF otpCallback THEN "otp_callback" ELSE "otp_manual"
                     /\ UNCHANGED <<injected, pending>>
                ELSE \/ \E msg \in {"error_msg", "OTP screen not shown"} :
                          /\ pending' = ReturnFromTry(
                                 CreateResult(FALSE, "otp_requested", msg))
                          /\ pc' = AfterTry(pending')
                          /\ UNCHANGED injected
                     \/ \E exc \in ExcKinds :
                          RaiseInTry("get_error_message", exc, "otp_requested")
       \/ /\ \E exc \in ExcKinds :
                RaiseInTry("wait_for_otp_screen", exc, "otp_requested")
          /\ UNCHANGED events
    /\ RecordedStepFrame

\* step 4 with the call of wait_for_otp_screen spelled out: the lines that
\* follow its return (346-359).  get_error_message() looks at the page as
\* the classifier saw it last.
AfterWaitForOtpScreen ==
    /\ pc = "wait_for_otp_screen"
    /\ otpRet \in {"True", "False"}
    /\ events' = Append(events, IF otpRet = "True" THEN "otp_screen"
                                ELSE "no_otp_screen")
    /\ IF OtpReceived(otpRet = "True")
       THEN /\ pc' = IF otpCallback THEN "otp_callback" ELSE "otp_manual"
            /\ UNCHANGED pending
       ELSE \E element_text \in ErrorElementTexts :
              LET error_msg == GetErrorMessage(LastBodyRead(otpTick),
                                               element_text)
              IN  /\ pending' = ReturnFromTry(CreateResult(FALSE, currentStep,
                                                  ErrorOrDefault(error_msg)))
                  /\ pc' = AfterTry(pending')
    /\ UNCHANGED <<currentStep, injected>>
    /\ RecordedStepFrame

\* step 5 with a callback (lines 368-387): the code is entered and verified,
\* or the callback yields nothing.  events records "callback_empty" when the
\* callback returned no code and "enter_otp" when enter_otp was called.
OtpFromCallback ==
    /\ pc = "otp_callback"
    /\ \E waited \in CallbackWaits :
          /\ otpWaited' = waited
          /\ \/ \E otp_code \in OtpCodes :
                   LET ev == IF otp_code = ""
                             THEN Append(events, "callback_empty")
                             ELSE events
                   IN  IF CodeReceived(otp_code)
                       THEN /\ events' = Append(ev, "enter_otp")
                            /\ currentStep' = "otp_verified"
                            /\ pc' = "fill_profile"
                            /\ UNCHANGED <<injected, pending>>
                       ELSE /\ events' = ev
                            /\ pending' = ReturnFromTry(
                                   CreateResult(FALSE, currentStep,
                                                "OTP not received"))
                            /\ pc' = AfterTry(pending')
                            /\ UNCHANGED <<injected, currentStep>>
             \/ \E exc \in ExcKinds, entered \in BOOLEAN, verified \in BOOLEAN :
                   \* otp_callback raises before enter_otp is called; enter_otp
                   \* and click_verify raise before line 377, the wait after
                   \* click_verify raises after it
                   /\ verified => entered
                   /\ LET step == IF verified THEN "otp_verified" ELSE currentStep
                      IN  /\ currentStep' = step
                          /\ RaiseInTry("enter_otp", exc, step)
                   /\ events' = IF entered THEN Append(events, "enter_otp")
                                ELSE events
    /\ OtpStepFrame

\* step 5 without a callback (lines 388-407): wait for the profile form;
\* events records "profile_form" when the form appeared and
\* "profile_form_timeout" when it did not
OtpManual ==
    /\ pc = "otp_manual"
    /\ \/ \E k \in 1..Len(profile_indicators) :
             \* indicator k shows up, the ones before it have timed out
             /\ otpWaited' = (k - 1) * IndicatorTimeout(manual_otp_timeout)
             /\ events' = Append(events, "profile_form")
             /\ currentStep' = "otp_verified"
             /\ pc' = "fill_profile"
             /\ UNCHANGED <<injected, pending>>
       \/ /\ otpWaited' = Len(profile_indicators)
                              * IndicatorTimeout(manual_otp_timeout)
          /\ events' = Append(events, "profile_form_timeout")
          /\ pending' = ReturnFromTry(CreateResult(FALSE, currentStep,
                                         "Timeout waiting for manual OTP entry"))
          /\ pc' = AfterTry(pending')
          /\ UNCHANGED <<injected, currentStep>>
       \/ \E exc \in ExcKinds, k \in 1..Len(profile_indicators) :
             /\ otpWaited' = (k - 1) * IndicatorTimeout(manual_otp_timeout)
             /\ RaiseInTry("wait_for_profile_form", exc, currentStep)
             /\ UNCHANGED <<currentStep, events>>
    /\ OtpStepFrame

\* step 6 (lines 417-429).  events records "fill_profile" when the step is
\* entered, "profile_form" when wait_for_profile_form() returned True and
\* "agree_click" when agree_and_continue() clicked a button.  The step goes
\* on to step 7 when the form is not found (line 429) and when
\* agree_and_continue() finds no button (signup_page.py line 710).
FillProfile ==
    /\ pc = "fill_profile"
    /\ currentStep' = "profile_completed"
    /\ \E form \in BOOLEAN, clicked \in BOOLEAN :
          LET entered == Append(events, "fill_profile")
              found   == IF form THEN Append(entered, "profile_form")
                         ELSE entered
          IN  /\ clicked => form
              /\ events' = IF clicked THEN Append(found, "agree_click")
                            ELSE found
              /\ \/ /\ pc' = "is_signup_successful"
                    /\ UNCHANGED <<injected, pending>>
                 \/ \E exc \in ExcKinds :
                       RaiseInTry("fill_profile", exc, "profile_completed")
    /\ RecordedStepFrame

\* step 7 (lines 438-472); events records "is_signup_successful" when the
\* step is entered
VerifySuccess ==
    /\ pc = "is_signup_successful"
    /\ events' = Append(events, "is_signup_successful")
    /\ \/ /\ currentStep' = "signup_completed"
          /\ pending' = ReturnFromTry(CreateResult(TRUE, "signup_completed", "none"))
          /\ pc' = AfterTry(pending')
          /\ UNCHANGED injected
       \/ \E msg \in {"error_msg", "Signup verification failed"} :
             /\ pending' = ReturnFromTry(CreateResult(FALSE, currentStep, msg))
             /\ pc' = AfterTry(pending')
             /\ UNCHANGED <<injected, currentStep>>
       \/ \E exc \in ExcKinds, completed \in BOOLEAN :
             \* is_signup_successful and get_error_message raise before line
             \* 439, the construction of AccountCredentials after it
             LET step == IF completed THEN "signup_completed" ELSE currentStep
             IN  /\ currentStep' = step
                 /\ RaiseInTry("is_signup_successful", exc, step)
    /\ RecordedStepFrame

\* the shutdown signals that can reach an attempt at an await: the task is
\* cancelled, or KeyboardInterrupt is raised in it.  Neither is an Exception.
AbortKinds == {"CancelledError", "KeyboardInterrupt"}

\* the awaits inside the try block of _run_airbnb_signup (lines 245-472)
TrySuspensionPoints ==
    {"start_browser", "navigate", "wait_for_signup_modal",
     "select_phone_signup", "enter_phone_number", "click_continue",
     "has_error", "wait_for_otp_screen", "otp_callback", "otp_manual",
     "fill_profile", "is_signup_successful"}

\* where control goes when a shutdown signal is raised inside the try block:
\* no except clause matches (lines 474, 482), the finally clause runs
AfterAbortPropagates(p) == "escaped"
AfterAbort(p) == "finally"

\* a shutdown signal reaches the attempt at one of the awaits of the try block
AbortInTry ==
    /\ pc \in TrySuspensionPoints
    /\ \E sig \in AbortKinds :
          pending' = [kind |-> "abort", result |-> NoResult, exc |-> sig]
    /\ pc' = AfterAbort(pending')
    /\ injected' = "abort"
    /\ UNCHANGED currentStep
    /\ StepFrame

\* the finally clause: browser_manager.stop() (BrowserManager.stop, lines
\* 186-204).  When closing the browser or stopping Playwright raises, the
\* exception replaces the pending return (or the pending shutdown signal)
\* and leaves _run_airbnb_signup.  When stop() returns, a pending shutdown
\* signal goes on to the caller: run_single_signup catches Exception only
\* (line 195).
FinallyStop ==
    /\ pc = "finally"
    /\ events' = Append(events, "stop")
    /\ \/ /\ bmBrowser' = FALSE
          /\ bmPlaywright' = FALSE
          /\ pc' = IF pending.kind = "abort" THEN "escaped" ELSE "handle_result"
          /\ UNCHANGED <<injected, pending>>
       \/ /\ bmBrowser
          /\ UNCHANGED <<bmBrowser, bmPlaywright>>
          /\ pending' = [kind |-> "exc", result |-> NoResult, exc |-> "Exception"]
          /\ pc' = "outer_except"
          /\ injected' = IF injected = "none" THEN "stop" ELSE injected
       \/ /\ bmPlaywright
          /\ bmBrowser' = FALSE
          /\ UNCHANGED bmPlaywright
          /\ pending' = [kind |-> "exc", result |-> NoResult, exc |-> "Exception"]
          /\ pc' = "outer_except"
          /\ injected' = IF injected = "none" THEN "stop" ELSE injected
    /\ UNCHANGED <<pageAttr, otpWaited, otpCallback, nextPhone, attempt, phoneInUse, result, currentStep>>
    /\ UNCHANGED <<pmVars, otpVars>>

\* "Handle result" (lines 183-193)
HandleResult ==
    /\ pc = "handle_result"
    /\ IF pending.result.success
       THEN /\ MarkSuccessAs("mark_used", phoneInUse)
            /\ events' = Append(events, "commit_success")
            /\ pc' = "save"
            /\ UNCHANGED result
       ELSE /\ MarkFailedAs("mark_failed", phoneInUse)
            /\ events' = Append(events, "commit_failed")
            /\ pc' = "returned"
            /\ result' = pending.result
    /\ UNCHANGED <<pageAttr, otpWaited, otpCallback, nextPhone, attempt, phoneInUse, currentStep,
                   bmPlaywright, bmBrowser, pending, injected>>
    /\ UNCHANGED otpVars

\* account_saver.save(result.account) (line 188; AccountSaver.save)
SaveAccount ==
    /\ pc = "save"
    /\ \/ /\ events' = Append(events, "save")
          /\ result' = pending.result
          /\ pc' = "returned"
          /\ UNCHANGED <<injected, pending>>
       \/ /\ events' = Append(events, "save_raised")
          /\ pending' = [kind |-> "exc", result |-> NoResult, exc |-> "Exception"]
          /\ pc' = "outer_except"
          /\ injected' = "save"
          /\ UNCHANGED result
    /\ UNCHANGED <<pageAttr, otpWaited, otpCallback, nextPhone, attempt, phoneInUse, currentStep,
                   bmPlaywright, bmBrowser>>
    /\ UNCHANGED <<pmVars, otpVars>>

\* the except clause of run_single_signup (lines 195-204)
OuterExcept ==
    /\ pc = "outer_except"
    /\ IF phoneInUse # None
       THEN /\ MarkFailedAs("mark_failed", phoneInUse)
            /\ events' = Append(events, "commit_failed")
       ELSE UNCHANGED <<pmVars, events>>
    /\ LET out == OuterExceptOutcome(currentStep)
       IN  /\ result' = out.result
           /\ pc' = IF out.escaped THEN "escaped" ELSE "returned"
    /\ UNCHANGED <<pageAttr, otpWaited, otpCallback, nextPhone, attempt, phoneInUse, currentStep,
                   bmPlaywright, bmBrowser, pending, injected>>
    /\ UNCHANGED otpVars

\* the caller (run_batch_signup, lines 543-554) goes on to the next attempt,
\* whose _run_airbnb_signup builds a new BrowserManager
NextAttempt ==
    /\ pc = "returned"
    /\ attempt < MaxAttempts
    /\ pc' = "idle"
    /\ bmPlaywright' = FALSE
    /\ bmBrowser' = FALSE
    /\ UNCHANGED <<pageAttr, otpWaited, otpCallback, nextPhone, attempt, phoneInUse, currentStep, pending,
                   result, events, injected>>
    /\ UNCHANGED <<pmVars, otpVars>>

\* run_continuous_loop, head of the loop (airbnb_runner.py lines 185-216):
\* available_count, then get_next() to show the next phone, then a fresh
\* SignupOrchestrator for the attempt
LoopPeek ==
    /\ pc = "loop"
    /\ attempt < MaxAttempts
    /\ LET remaining == AvailableCount(allPhones, successFile, failedFile)
       IN  IF remaining = 0
           THEN /\ successNumbers' = LoadNumbersFromFile(successFile)
                /\ failedNumbers' = LoadNumbersFromFile(failedFile)
                /\ pmOp' = [op |-> "available_count", arg |-> None,
                            ret |-> None, raised |-> FALSE, avail |-> remaining]
                /\ pc' = "loop_done"
                /\ UNCHANGED <<saverVars, peer, sourceLines, loaded, allPhones, successFile,
                               failedFile, committed, nCommits>>
                /\ UNCHANGED <<nextPhone, currentStep>>
           ELSE /\ GetNextCall
                /\ nextPhone' = pmOp'.ret
                /\ IF pmOp'.ret = None
                   THEN /\ pc' = "loop_done"
                        /\ UNCHANGED currentStep
                   ELSE /\ pc' = "peeked"
                        /\ currentStep' = "initialized"
    /\ UNCHANGED <<pageAttr, otpWaited, otpCallback, attempt, phoneInUse, bmPlaywright,
                   bmBrowser, pending, result, events, injected>>
    /\ UNCHANGED otpVars

\* run_continuous_loop, end of the loop body (airbnb_runner.py lines
\* 229-258): the result is counted, available_count is read again
LoopNext ==
    /\ pc = "returned"
    /\ pc' = "loop"
    /\ successNumbers' = LoadNumbersFromFile(successFile)
    /\ failedNumbers' = LoadNumbersFromFile(failedFile)
    /\ pmOp' = [op |-> "available_count", arg |-> None, ret |-> None,
                raised |-> FALSE,
                avail |-> AvailableCount(allPhones, successFile, failedFile)]
    /\ bmPlaywright' = FALSE
    /\ bmBrowser' = FALSE
    /\ UNCHANGED <<saverVars, peer, sourceLines, loaded, allPhones, successFile, failedFile,
                   committed, nCommits>>
    /\ UNCHANGED <<pageAttr, otpWaited, otpCallback, nextPhone, attempt, phoneInUse,
                   currentStep, pending, result, events, injected>>
    /\ UNCHANGED otpVars

\* no attempt in progress
IdleOrch ==
    /\ nextPhone = None
    /\ pageAttr = FALSE
    /\ otpWaited = 0
    /\ otpCallback = FALSE
    /\ pc = "none"
    /\ attempt = 0
    /\ currentStep = "initialized"
    /\ phoneInUse = None
    /\ bmPlaywright = FALSE
    /\ bmBrowser = FALSE
    /\ pending = NoPending
    /\ result = NoResult
    /\ events = <<>>
    /\ injected = "none"

\* the PhoneManager plays no part in a call of wait_for_otp_screen
IdlePM ==
    /\ sourceLines = <<>>
    /\ loaded = FALSE
    /\ allPhones = <<>>
    /\ successNumbers = {}
    /\ failedNumbers = {}
    /\ successFile = <<>>
    /\ failedFile = <<>>
    /\ pmOp = [op |-> "init", arg |-> None, ret |-> None, raised |-> FALSE,
               avail |-> 0]
    /\ committed = {}
    /\ nCommits = 0
    /\ peer = NoPeer
    /\ IdleSavers

\* wait_for_otp_screen(timeout) entered
InitOtp ==
    /\ otpTimeout \in {(k * check_interval) \div 2 : k \in 0..MaxTimeoutSteps}
    /\ elapsed = 0
    /\ pageTextLower = Unbound
    /\ otpRet = "running"
    /\ otpTick = NoTick
    /\ onlyInputSoFar = TRUE
    /\ IdleSelectors
    /\ IdlePM
    /\ IdleOrch

\* no call of wait_for_otp_screen in progress
IdleOtp ==
    /\ otpTimeout = DefaultOtpTimeout
    /\ elapsed = 0
    /\ pageTextLower = Unbound
    /\ otpRet = "idle"
    /\ otpTick = NoTick
    /\ onlyInputSoFar = TRUE
    /\ IdleSelectors

\* a PhoneManager just constructed, the stores empty (a fresh data directory)
InitPM ==
    /\ sourceLines \in SeqsUpTo(RawLines, MaxPhones)
    /\ loaded = FALSE
    /\ allPhones = <<>>
    /\ successNumbers = {}
    /\ failedNumbers = {}
    /\ successFile = <<>>
    /\ failedFile = <<>>
    /\ pmOp = [op |-> "init", arg |-> None, ret |-> None, raised |-> FALSE,
               avail |-> 0]
    /\ committed = {}
    /\ nCommits = 0
    /\ peer = NoPeer
    /\ IdleSavers
    /\ IdleOtp
    /\ IdleOrch

NextPM ==
    \/ Load
    \/ GetNext
    \/ MarkSuccess
    \/ MarkFailed
    \/ MarkUsed

SpecPM == InitPM /\ [][NextPM]_vars

NextPMWriteFails ==
    \/ NextPM
    \/ CommitWriteFails

\* a PhoneManager whose store files may refuse an append
SpecPMWriteFails == InitPM /\ [][NextPMWriteFails]_vars

\* two PhoneManagers, both loaded from the same phone list, the stores empty
InitPeers ==
    /\ sourceLines \in SeqsUpTo(RawLines, MaxPhones)
    /\ loaded = TRUE
    /\ allPhones = LoadPhoneList(sourceLines)
    /\ successNumbers = {}
    /\ failedNumbers = {}
    /\ successFile = <<>>
    /\ failedFile = <<>>
    /\ pmOp = [op |-> "load", arg |-> None, ret |-> None, raised |-> FALSE,
               avail |-> 0]
    /\ committed = {}
    /\ nCommits = 0
    /\ peer = [loaded |-> TRUE, allPhones |-> LoadPhoneList(sourceLines),
               successNumbers |-> {}, failedNumbers |-> {},
               op |-> [op |-> "load", arg |-> None, ret |-> None, n |-> 0]]
    /\ IdleSavers
    /\ IdleOtp
    /\ IdleOrch

NextPeers ==
    \/ GetNext
    \/ MarkUsed
    \/ PeerGetNext
    \/ PeerMarkUsed

\* two processes, each with its PhoneManager, calls interleaved
SpecPeers == InitPeers /\ [][NextPeers]_vars

InitSavers ==
    /\ IdlePM
    /\ IdleOtp
    /\ IdleOrch

NextSavers ==
    \/ \E i \in Savers : SaveLoad(i)
    \/ \E i \in Savers : SaveOpen(i)
    \/ \E i \in Savers : SaveWrite(i)

\* two tasks calling AccountSaver.save, interleaved at the awaits
SpecSavers == InitSavers /\ [][NextSavers]_vars

-----------------------------------------------------------------------------
(* BrowserManager._mlx_session (browser_manager.py, 434-564): the try body   *)
(* sets the handles one after the other, and the finally clause releases    *)
(* them.                                                                     *)

\* the ways the try body (lines 454-526) is left, and the handles set by then
BodyExits == {"create_profile_failed", "playwright_start_failed",
              "connect_failed", "page_setup_failed", "with_block_raised",
              "with_block_done"}

\* line 489: _mlx_profile_id is assigned once the quick profile is created
ProfileSetAt(exit) == exit # "create_profile_failed"

\* line 495: _playwright is assigned once Playwright has started
PlaywrightSetAt(exit) ==
    exit \notin {"create_profile_failed", "playwright_start_failed"}

\* lines 496-499: _browser is assigned once connect_over_cdp has returned
BrowserSetAt(exit) ==
    exit \in {"page_setup_failed", "with_block_raised", "with_block_done"}

\* MultiLoginXClient.stop_profile (multiloginx_client.py, 384-429): True on
\* status 200, False on another status or on an aiohttp.ClientError (the
\* only exception its try catches); any other exception of the request, such
\* as the asyncio.TimeoutError of the session's total timeout, leaves it
StopProfileOutcomes == {"True", "False", "raised"}

MlxFrame ==
    /\ UNCHANGED <<accountsFile, saver, savedAccounts, nSaves>>
    /\ UNCHANGED <<sourceLines, loaded, allPhones, successNumbers,
                   failedNumbers, successFile, failedFile, pmOp, committed,
                   nCommits, peer>>
    /\ UNCHANGED <<otpVars, orchVars>>

Attempted(step, outcome) ==
    Append(mlxCleanup, [step |-> step, outcome |-> outcome])

\* lines 443-449: the client object is created before the try
MlxEnter ==
    /\ mlxPc = "none"
    /\ mlxPc' = "body"
    /\ mlxClient' = TRUE
    /\ UNCHANGED <<mlxBody, mlxBrowser, mlxPlaywright, mlxProfileId,
                   mlxCleanup>>
    /\ MlxFrame

\* lines 454-535: the try body, left at one of its exits; the except clause
\* re-raises, so the finally clause is entered on every exit
MlxBody ==
    /\ mlxPc = "body"
    /\ \E exit \in BodyExits :
         /\ mlxBody' = exit
         /\ mlxProfileId' = ProfileSetAt(exit)
         /\ mlxPlaywright' = PlaywrightSetAt(exit)
         /\ mlxBrowser' = BrowserSetAt(exit)
    /\ mlxPc' = "browser_close"
    /\ UNCHANGED <<mlxClient, mlxCleanup>>
    /\ MlxFrame

\* lines 540-545: browser close, its failure logged and swallowed
MlxCloseBrowser ==
    /\ mlxPc = "browser_close"
    /\ IF mlxBrowser
         THEN \E outcome \in {"ok", "failed"} :
                mlxCleanup' = Attempted("browser_close", outcome)
         ELSE UNCHANGED mlxCleanup
    /\ mlxBrowser' = FALSE
    /\ mlxPc' = "playwright_stop"
    /\ UNCHANGED <<mlxBody, mlxPlaywright, mlxProfileId, mlxClient>>
    /\ MlxFrame

\* lines 547-552: Playwright stop, its failure logged and swallowed
MlxStopPlaywright ==
    /\ mlxPc = "playwright_stop"
    /\ IF mlxPlaywright
         THEN \E outcome \in {"ok", "failed"} :
                mlxCleanup' = Attempted("playwright_stop", outcome)
         ELSE UNCHANGED mlxCleanup
    /\ mlxPlaywright' = FALSE
    /\ mlxPc' = "stop_profile"
    /\ UNCHANGED <<mlxBody, mlxBrowser, mlxProfileId, mlxClient>>
    /\ MlxFrame

\* lines 555-557: stop_profile is awaited outside any try; when it raises,
\* the exception leaves the finally clause at once
MlxStopProfile ==
    /\ mlxPc = "stop_profile"
    /\ IF mlxClient /\ mlxProfileId
         THEN \E outcome \in StopProfileOutcomes :
                /\ mlxCleanup' = Attempted("stop_profile", outcome)
                /\ IF outcome = "raised"
                     THEN /\ mlxPc' = "raised"
                          /\ UNCHANGED mlxProfileId
                     ELSE /\ mlxPc' = "client_close"
                          /\ mlxProfileId' = FALSE
         ELSE /\ mlxPc' = "client_close"
              /\ UNCHANGED <<mlxCleanup, mlxProfileId>>
    /\ UNCHANGED <<mlxBody, mlxBrowser, mlxPlaywright, mlxClient>>
    /\ MlxFrame

\* lines 559-561: the client's close is awaited outside any try as well
MlxCloseClient ==
    /\ mlxPc = "client_close"
    /\ IF mlxClient
         THEN \E outcome \in {"ok", "raised"} :
                /\ mlxCleanup' = Attempted("client_close", outcome)
                /\ IF outcome = "raised"
                     THEN /\ mlxPc' = "raised"
                          /\ UNCHANGED mlxClient
                     ELSE /\ mlxPc' = "kill_chrome"
                          /\ mlxClient' = FALSE
         ELSE /\ mlxPc' = "kill_chrome"
              /\ UNCHANGED <<mlxCleanup, mlxClient>>
    /\ UNCHANGED <<mlxBody, mlxBrowser, mlxPlaywright, mlxProfileId>>
    /\ MlxFrame

\* line 564 and _kill_chrome_processes (566-590), which swallows its own
\* failure; the finally clause done, the body's exception, if any, goes on
MlxKillChrome ==
    /\ mlxPc = "kill_chrome"
    /\ \E outcome \in {"ok", "failed"} :
         mlxCleanup' = Attempted("kill_chrome", outcome)
    /\ mlxPc' = IF mlxBody = "with_block_done" THEN "returned" ELSE "raised"
    /\ UNCHANGED <<mlxBody, mlxBrowser, mlxPlaywright, mlxProfileId,
                   mlxClient>>
    /\ MlxFrame

InitMlx ==
    /\ IdlePM
    /\ IdleOtp
    /\ IdleOrch

NextMlx ==
    \/ MlxEnter
    \/ MlxBody
    \/ MlxCloseBrowser
    \/ MlxStopPlaywright
    \/ MlxStopProfile
    \/ MlxCloseClient
    \/ MlxKillChrome

\* one MultiLoginX session, from its entry to the end of its cleanup
SpecMlx == InitMlx /\ [][NextMlx]_vars

StepsAttempted == {mlxCleanup[i].step : i \in 1..Len(mlxCleanup)}

\* C32: when _mlx_session has been left, on whichever path, the client
\* close and the chrome process kill have been attempted, and so has the
\* profile stop whenever the body had created the profile.
C32_EveryCleanupStepAttempted ==
    mlxPc \in {"returned", "raised"} =>
        /\ {"client_close", "kill_chrome"} \subseteq StepsAttempted
        /\ ProfileSetAt(mlxBody) => "stop_profile" \in StepsAttempted

\* one of the three selector steps is called
InitSelectors ==
    /\ IdlePM
    /\ IdleOrch
    /\ otpTimeout = DefaultOtpTimeout
    /\ elapsed = 0
    /\ pageTextLower = Unbound
    /\ otpRet = "idle"
    /\ otpTick = NoTick
    /\ onlyInputSoFar = TRUE
    /\ selStep \in SelectorSteps
    /\ selTried = 0
    /\ selActed = <<>>
    /\ selResult = "running"

NextSelectors ==
    \/ TryCandidate
    \/ CandidatesExhausted

SpecSelectors == InitSelectors /\ [][NextSelectors]_vars

\* step 4 of an attempt entered: _current_step is OTP_REQUESTED (line 343)
\* and wait_for_otp_screen() is called with its default timeout
InitOtpResult ==
    /\ otpTimeout \in {(k * check_interval) \div 2 : k \in 0..MaxTimeoutSteps}
    /\ elapsed = 0
    /\ pageTextLower = Unbound
    /\ otpRet = "running"
    /\ otpTick = NoTick
    /\ onlyInputSoFar = TRUE
    /\ IdleSelectors
    /\ IdlePM
    /\ nextPhone = None
    /\ pageAttr = TRUE
    /\ otpWaited = 0
    /\ otpCallback \in BOOLEAN
    /\ pc = "wait_for_otp_screen"
    /\ attempt = 1
    /\ currentStep = "otp_requested"
    /\ phoneInUse = <<"1">>
    /\ bmPlaywright = TRUE
    /\ bmBrowser = TRUE
    /\ pending = NoPending
    /\ result = NoResult
    /\ events = <<"enter">>
    /\ injected = "none"

NextOtpResult ==
    \/ PollTick
    \/ OtpTimeoutReturn
    \/ AfterWaitForOtpScreen

\* step 4 of an attempt: the classifier's poll loop and what the
\* orchestrator makes of its verdict
SpecOtpResult == InitOtpResult /\ [][NextOtpResult]_vars

NextOtp ==
    \/ PollTick
    \/ OtpTimeoutReturn

\* wait_for_otp_screen on a page whose body text can always be read
SpecOtp == InitOtp /\ [][NextOtp]_vars

\* the same, for a call that is run to its end: the event loop resumes the
\* coroutine after each await until it returns
SpecOtpFair == SpecOtp /\ WF_vars(NextOtp)

NextOtpReadFails ==
    \/ PollTickReadFails
    \/ OtpTimeoutReturn

\* wait_for_otp_screen on a page whose body reads can raise
SpecOtpReadFails == InitOtp /\ [][NextOtpReadFails]_vars

\* a SignupOrchestrator just constructed on a loaded PhoneManager (the
\* runners call load() first); pageAttr is FALSE for the BrowserManager of
\* core/browser_manager.py, which defines no attribute page, and TRUE for a
\* manager that exposes the page line 248 reads
Init ==
    /\ sourceLines \in SeqsUpTo(RawLines, MaxPhones)
    /\ loaded = TRUE
    /\ allPhones = LoadPhoneList(sourceLines)
    /\ successNumbers = {}
    /\ failedNumbers = {}
    /\ successFile = <<>>
    /\ failedFile = <<>>
    /\ pmOp = [op |-> "load", arg |-> None, ret |-> None, raised |-> FALSE,
               avail |-> 0]
    /\ committed = {}
    /\ nCommits = 0
    /\ peer = NoPeer
    /\ IdleSavers
    /\ IdleOtp
    /\ pageAttr \in BOOLEAN
    /\ otpWaited = 0
    /\ otpCallback \in BOOLEAN
    /\ pc = "idle"
    /\ attempt = 0
    /\ currentStep = "initialized"
    /\ phoneInUse = None
    /\ bmPlaywright = FALSE
    /\ bmBrowser = FALSE
    /\ pending = NoPending
    /\ result = NoResult
    /\ events = <<>>
    /\ injected = "none"
    /\ nextPhone = None

Next ==
    \/ StartAttempt
    \/ GenerateProfile
    \/ BrowserStart
    \/ GetPage
    \/ NavigateToSignup
    \/ WaitForSignupModal
    \/ SelectPhoneSignup
    \/ EnterPhoneNumber
    \/ ClickContinue
    \/ CheckPhoneError
    \/ WaitForOtpScreen
    \/ OtpFromCallback
    \/ OtpManual
    \/ FillProfile
    \/ VerifySuccess
    \/ FinallyStop
    \/ HandleResult
    \/ SaveAccount
    \/ OuterExcept
    \/ NextAttempt

Spec == Init /\ [][Next]_vars

NextAbort ==
    \/ Next
    \/ AbortInTry

\* the same attempts, with a shutdown signal that can arrive at any await of
\* the try block
SpecAbort == Init /\ [][NextAbort]_vars

\* run_continuous_loop entered (airbnb_runner.py lines 160-183): the
\* PhoneManager is loaded, every attempt gets a fresh orchestrator and
\* otp_callback = None
InitLoop ==
    /\ sourceLines \in SeqsUpTo(RawLines, MaxPhones)
    /\ loaded = TRUE
    /\ allPhones = LoadPhoneList(sourceLines)
    /\ successNumbers = {}
    /\ failedNumbers = {}
    /\ successFile = <<>>
    /\ failedFile = <<>>
    /\ pmOp = [op |-> "load", arg |-> None, ret |-> None, raised |-> FALSE,
               avail |-> 0]
    /\ committed = {}
    /\ nCommits = 0
    /\ peer = NoPeer
    /\ IdleSavers
    /\ IdleOtp
    /\ pageAttr \in BOOLEAN
    /\ otpWaited = 0
    /\ otpCallback = FALSE
    /\ pc = "loop"
    /\ attempt = 0
    /\ currentStep = "initialized"
    /\ phoneInUse = None
    /\ bmPlaywright = FALSE
    /\ bmBrowser = FALSE
    /\ pending = NoPending
    /\ result = NoResult
    /\ events = <<>>
    /\ injected = "none"
    /\ nextPhone = None

NextLoop ==
    \/ LoopPeek
    \/ StartAttempt
    \/ GenerateProfile
    \/ BrowserStart
    \/ GetPage
    \/ NavigateToSignup
    \/ WaitForSignupModal
    \/ SelectPhoneSignup
    \/ EnterPhoneNumber
    \/ ClickContinue
    \/ CheckPhoneError
    \/ WaitForOtpScreen
    \/ OtpManual
    \/ FillProfile
    \/ VerifySuccess
    \/ FinallyStop
    \/ HandleResult
    \/ SaveAccount
    \/ OuterExcept
    \/ LoopNext

SpecLoop == InitLoop /\ [][NextLoop]_vars

-----------------------------------------------------------------------------
(* Properties of SignupOrchestrator.run_single_signup.                     *)

RECURSIVE CountOf(_, _)
CountOf(e, seq) ==
    IF seq = <<>> THEN 0
    ELSE (IF Head(seq) = e THEN 1 ELSE 0) + CountOf(e, Tail(seq))

\* index of the first occurrence of e in seq, 0 when there is none
RECURSIVE IndexOf(_, _)
IndexOf(e, seq) ==
    IF seq = <<>> THEN 0
    ELSE IF Head(seq) = e THEN 1
    ELSE LET i == IndexOf(e, Tail(seq)) IN IF i = 0 THEN 0 ELSE i + 1

Commits(seq) == CountOf("commit_success", seq) + CountOf("commit_failed", seq)

FirstCommit(seq) ==
    LET s == IndexOf("commit_success", seq)
        f == IndexOf("commit_failed", seq)
    IN  IF s = 0 THEN f ELSE IF f = 0 THEN s ELSE IF s < f THEN s ELSE f

\* C2: whatever call of an attempt raises an exception, run_single_signup
\* returns a SignupResult with success = false and the exception does not
\* reach its caller.
C2_ExceptionBecomesFailedResult ==
    /\ pc # "escaped"
    /\ (pc = "returned" /\ injected # "none") =>
          (result # NoResult /\ ~result.success)

\* C2 witness: browser_manager.start() raised, and the attempt returned a
\* failed result
C2_Witness ==
    /\ pc = "returned"
    /\ ~pageAttr
    /\ injected = "start"
    /\ result.success = FALSE
    /\ result.error \in {"Timeout: e", "str(e)"}

\* C3: an attempt that entered _run_airbnb_signup has invoked
\* BrowserManager.stop() exactly once when run_single_signup returns, on the
\* return paths and on the exception paths alike, and never more than once.
C3_StopExactlyOnce ==
    /\ CountOf("stop", events) <= 1
    /\ (pc = "returned" /\ CountOf("enter", events) = 1) =>
          CountOf("stop", events) = 1

\* C3 witness: the attempt left the try block by the AttributeError of line
\* 248 and returned after one stop()
C3_Witness ==
    /\ pc = "returned"
    /\ ~pageAttr
    /\ injected = "page"
    /\ CountOf("enter", events) = 1
    /\ CountOf("stop", events) = 1

\* C4 as stated: in an attempt that has both committed the identifier and
\* released the session, the commit comes before the release.
C4_CommitPrecedesRelease ==
    (pc = "returned" /\ CountOf("stop", events) = 1 /\ Commits(events) >= 1) =>
       FirstCommit(events) < IndexOf("stop", events)

\* C4 as amended: in an attempt that entered _run_airbnb_signup, every commit
\* of the identifier comes after BrowserManager.stop() was invoked; the
\* release precedes the commit.
C4_ReleasePrecedesCommit ==
    (CountOf("enter", events) = 1 /\ Commits(events) >= 1) =>
       /\ CountOf("stop", events) = 1
       /\ IndexOf("stop", events) < FirstCommit(events)

\* C4 witness: a failed attempt, released and then committed
C4_Witness ==
    /\ pc = "returned"
    /\ ~pageAttr
    /\ ~result.success
    /\ events = <<"enter", "stop", "commit_failed">>

LaterSteps == {"enter_otp", "fill_profile", "is_signup_successful"}

EventSet == {events[i] : i \in 1..Len(events)}

C15_SuccessIffCompleted ==
    (pc = "returned" /\ result # NoResult) =>
        (result.success <=> result.step = "signup_completed")

\* the states an attempt can be in when the call is made: the state the
\* attempt entered last (initialized before its first step assignment)
StatesAtCall(call) ==
    CASE call \in {"start", "page", "navigate_to_signup"} -> {"initialized"}
      [] call \in {"wait_for_signup_modal", "select_phone_signup"} ->
             {"navigated_to_signup"}
      [] call \in {"enter_phone_number", "click_continue", "has_error"} ->
             {"phone_entered"}
      [] call \in {"wait_for_otp_screen", "wait_for_profile_form"} ->
             {"otp_requested"}
      [] call = "enter_otp" -> {"otp_requested", "otp_verified"}
      [] call = "fill_profile" -> {"profile_completed"}
      [] call = "is_signup_successful" ->
             {"profile_completed", "signup_completed"}
      [] OTHER -> {}

\* C16: when a call of an attempt raises, the result has success = false
\* and its step_reached is the state the attempt was in, the last state that
\* attempt entered; enter_phone_number and click_continue give phone_entered.
C16_StepReachedIsStateAtRaise ==
    (pc = "returned" /\ StatesAtCall(injected) # {}) =>
        /\ ~result.success
        /\ result.step \in StatesAtCall(injected)

\* C17: when get_next() returns None at the start of an attempt,
\* run_single_signup returns at once a failed result with step_reached =
\* initialized; no browser session exists, _run_airbnb_signup was not
\* entered, and neither store file has changed.
C17_NoPhoneNoEffect ==
    [][ (attempt' = attempt + 1 /\ pmOp'.op = "get_next" /\ pmOp'.ret = None)
        => /\ pc' = "returned"
           /\ result' = CreateResult(FALSE, "initialized",
                                     "No available phone numbers")
           /\ events' = <<>>
           /\ ~bmPlaywright' /\ ~bmBrowser'
           /\ successFile' = successFile
           /\ failedFile' = failedFile
      ]_vars

\* C17 witness: the second attempt found the list used up, after a first
\* attempt that got past its first step
C17_Witness ==
    /\ pc = "returned"
    /\ attempt = 2
    /\ phoneInUse = None
    /\ pmOp.op = "get_next"
    /\ currentStep # "initialized"
    /\ result.step = "initialized"
    /\ Len(successFile) + Len(failedFile) = 1
    /\ events = <<>>

\* C20: BrowserManager.stop() returns normally in every state: the finally
\* clause of _run_airbnb_signup is never left by an exception of stop().
C20_StopNeverRaises ==
    ~( /\ pc = "outer_except"
       /\ events # <<>>
       /\ events[Len(events)] = "stop" )

\* C21 as stated, the part a finite run settles: run_continuous_loop performs
\* exactly one attempt per identifier, so a pass of the loop never starts an
\* attempt on a number an earlier pass has already committed.
C21_OneAttemptPerIdentifier ==
    (pc = "generate_profile" /\ pmOp.op = "get_next")
        => \A success \in BOOLEAN : <<phoneInUse, success>> \notin committed


\* C23: run_single_signup returns success = true only if wait_for_otp_screen
\* returned True in that attempt; once it has returned False, neither the OTP
\* step nor a profile step is entered, and the result of the attempt has
\* success = false and step_reached = OTP_REQUESTED.
C23_NoOtpScreenEndsAttempt ==
    /\ (pc = "returned" /\ result.success) => "otp_screen" \in EventSet
    /\ "no_otp_screen" \in EventSet =>
          /\ pc \notin {"otp_callback", "otp_manual", "fill_profile",
                        "is_signup_successful"}
          /\ EventSet \cap {"callback_empty", "enter_otp", "profile_form_timeout",
                            "fill_profile", "is_signup_successful"} = {}
          /\ pc = "returned" => /\ ~result.success
                                /\ result.step = "otp_requested"

C23_Witness ==
    /\ pc = "returned"
    /\ "no_otp_screen" \in EventSet
    /\ result = CreateResult(FALSE, "otp_requested", "OTP screen not shown")

\* the failure phrase the classifier matched when it rejected
MatchedFailurePhrase ==
    IF otpTick.decision = "failure_text"
    THEN FirstMatch(failure_texts, pageTextLower)
    ELSE FirstMatch(failure_texts, Lower(otpTick.recheck))

\* C24 as stated, for the failure phrases: when wait_for_otp_screen returned
\* False on a failure phrase, the error_message of the result is that phrase.
C24_ReasonIsMatchedPhrase ==
    (pc = "finally" /\ otpTick.decision \in {"failure_text", "recheck_error"})
        => pending.result.error = MatchedFailurePhrase

\* C25 as stated: the attempt leaves step 5 within the timeout the step
\* has (manual_otp_timeout), with a callback and without one.
C25_OtpWaitBounded == otpWaited <= manual_otp_timeout

\* C28 as stated: a result with success = true is returned only after the
\* profile form was detected and agree_and_continue() clicked a button, in
\* that attempt, and is_signup_successful() ran after that click.
C28_SuccessAfterSubmission ==
    (pc = "returned" /\ result.success) =>
        /\ "profile_form" \in EventSet
        /\ "agree_click" \in EventSet
        /\ IndexOf("agree_click", events) < IndexOf("is_signup_successful", events)

\* C30: once a shutdown signal has been raised inside the try block of
\* _run_airbnb_signup, control leaves the finally clause, and the signal
\* reaches the caller, only after BrowserManager.stop() has been invoked.
C30_StopBeforeAbortPropagates ==
    (injected = "abort" /\ pc # "finally") => CountOf("stop", events) = 1

\* C30 witness: the signal arrived while the browser was starting, stop() was
\* invoked and the signal left run_single_signup
C30_Witness ==
    /\ injected = "abort"
    /\ pc = "escaped"
    /\ pending.kind = "abort"
    /\ events = <<"enter", "stop">>

\* the order of the SignupStep values along the flow (enums.py lines 25-36)
StepOrder == <<"initialized", "navigated_to_signup", "phone_entered",
               "otp_requested", "otp_verified", "profile_completed",
               "signup_completed">>

StepRank(step) == IndexOf(step, StepOrder)

\* C31 as stated: while an attempt runs, _current_step never moves to an
\* earlier step of the order, and it becomes OTP_VERIFIED only from
\* OTP_REQUESTED.
C31_StepOnlyForward ==
    [][ attempt' = attempt =>
          /\ StepRank(currentStep') >= StepRank(currentStep)
          /\ (currentStep' = "otp_verified" /\ currentStep # "otp_verified")
                => currentStep = "otp_requested" ]_vars

\* the calls an attempt makes before its first step assignment (line 260)
BeforeFirstAssignment == {"generate_profile", "start", "page"}

\* C34: the result of an attempt that failed before its first step
\* assignment reports no step of an earlier attempt: its step_reached is
\* initialized, the step of an attempt that has entered none.
C34_NoCarriedOverStep ==
    (pc = "returned" /\ injected \in BeforeFirstAssignment) =>
        result.step = "initialized"

\* the calls C35 supposes to succeed: start() and the page operations
StartAndPageOperations ==
    {"start", "navigate_to_signup", "wait_for_signup_modal",
     "select_phone_signup", "enter_phone_number", "click_continue",
     "has_error", "get_error_message", "wait_for_otp_screen", "enter_otp",
     "wait_for_profile_form", "fill_profile", "is_signup_successful"}

\* the answers of the page and of the callback that end an attempt early
NegativeAnswers == {"no_otp_screen", "callback_empty", "profile_form_timeout"}

\* C35: with the BrowserManager of the repository, an attempt that has
\* entered _run_airbnb_signup and returned, in which neither start() nor a
\* page operation has failed and neither the classifier nor the callback
\* has answered negatively, has returned success = true with step_reached =
\* signup_completed.
C35_CompletedWhenAllSucceed ==
    ( /\ ~pageAttr
      /\ pc = "returned"
      /\ "enter" \in EventSet
      /\ injected \notin StartAndPageOperations
      /\ EventSet \cap NegativeAnswers = {} )
    => /\ result.success
       /\ result.step = "signup_completed"

\* C36: a poll tick whose read of the page text (step 1) failed lets no
\* exception leave wait_for_otp_screen and does not return True on the
\* success phrase of a text read at an earlier tick: it is pending, unless
\* a captcha is visible or the backup check's own read of that tick decides.
C36_ReadFailureIsPending ==
    (otpTick.n > 0 /\ otpTick.read = NotRead) =>
        /\ otpRet # "raised"
        /\ otpTick.decision # "success_text"
        /\ otpTick.decision \in {"pending", "captcha", "recheck_success",
                                 "recheck_error", "timeout"}

\* C37: once BrowserManager.stop() has finished in an attempt, by a return
\* or by an exception, neither the browser handle nor the Playwright handle
\* is held.
C37_StopReleasesBothHandles ==
    "stop" \in EventSet => (~bmBrowser /\ ~bmPlaywright)

\* calls of AccountSaver.save made by the attempt, returned or raised
SaveCalls == CountOf("save", events) + CountOf("save_raised", events)

\* C38: when run_single_signup has returned a result for an attempt that had
\* a phone number, save was called exactly once if the result has success =
\* true and not at all if it has success = false, and the number was
\* committed to the success store exactly when the result has success = true.
C38_SaveAndSuccessCommitIffSuccess ==
    (pc = "returned" /\ phoneInUse # None) =>
        /\ SaveCalls = (IF result.success THEN 1 ELSE 0)
        /\ ("commit_success" \in EventSet) <=> result.success

\* C5: no phone number is in both the success store and the failed store,
\* and an attempt that claimed an identifier has committed it exactly once
\* when it returns, also when AccountSaver.save raises after the success
\* commit.
C5_OneStoreOnce ==
    /\ LoadNumbersFromFile(successFile) \cap LoadNumbersFromFile(failedFile) = {}
    /\ (pc = "returned" /\ phoneInUse # None) => Commits(events) = 1

-----------------------------------------------------------------------------
(* Properties of wait_for_otp_screen.                                      *)

\* the body texts the last tick read
TickTexts ==
    ({otpTick.read} \cup (IF otpTick.reached THEN {otpTick.recheck} ELSE {}))
        \ {NotRead}

TickShowsFailure ==
    \E t \in TickTexts : FirstMatch(failure_texts, Lower(t)) # NoMatch

TickShowsInput == AnyVisible(otp_indicators, otpTick.visible)

TickShowsCaptcha == AnyVisible(captcha_indicators, otpTick.visible)

\* C6: a poll tick whose page shows a known failure phrase and a visible
\* numeric-code input ends the call with False, never with True.
C6_FailureWithInputReturnsFalse ==
    (otpTick.n > 0 /\ TickShowsFailure /\ TickShowsInput) => otpRet = "False"

\* C7: a poll tick whose page text holds both a known failure phrase and a
\* known "code sent" phrase ends the call with False.
C7_FailureOutranksSuccess ==
    (otpTick.n > 0 /\ \E t \in TickTexts :
                         /\ FirstMatch(failure_texts, Lower(t)) # NoMatch
                         /\ FirstMatch(otp_success_texts, Lower(t)) # NoMatch)
        => otpRet = "False"

C9_CaptchaReturnsFalse ==
    (otpTick.n > 0 /\ TickShowsCaptcha) => otpRet = "False"

\* C9 witness: a challenge marker next to a "code sent" phrase, decided by
\* the challenge check
C9_Witness ==
    /\ otpTick.n > 0
    /\ TickShowsCaptcha
    /\ otpTick.read # NotRead
    /\ FirstMatch(otp_success_texts, Lower(otpTick.read)) # NoMatch
    /\ otpTick.decision = "captcha"
    /\ otpRet = "False"

C27_FailureAtFirstVisibleTick ==
    otpTick.n > 0 =>
        /\ TickShowsFailure =>
              /\ otpRet = "False"
              /\ elapsed = (otpTick.n - 1) * check_interval
        /\ ( /\ ~TickShowsFailure
             /\ ~TickShowsCaptcha
             /\ \A t \in TickTexts :
                   FirstMatch(otp_success_texts, Lower(t)) = NoMatch
             /\ otpTick.decision # "timeout" )
           => otpRet = "running"

-----------------------------------------------------------------------------
(* Properties of the PhoneManager.                                         *)

\* a line of the phone list that is an identifier: digits with an optional
\* leading +, surrounded by optional blanks
IsIdentifierLine(l) ==
    LET n == Strip(l)
    IN  /\ \E i \in 1..Len(n) : IsDigit(n[i])
        /\ \A i \in 1..Len(n) : IsDigit(n[i]) \/ (i = 1 /\ n[i] = "+")

\* the manager was loaded with identifiers only
LoadedWithIdentifiers ==
    /\ loaded
    /\ \A i \in 1..Len(sourceLines) : IsIdentifierLine(sourceLines[i])

CommitOps == {"mark_success", "mark_failed", "mark_used"}

\* how many lines of a file hold the number
RECURSIVE CountLines(_, _)
CountLines(file, number) ==
    IF file = <<>> THEN 0
    ELSE (IF Head(file) = number THEN 1 ELSE 0) + CountLines(Tail(file), number)

StoredNumbers == LoadNumbersFromFile(successFile) \cup LoadNumbersFromFile(failedFile)

\* positions of the loaded list whose number is in neither store
OpenPositions == {i \in 1..Len(allPhones) : allPhones[i] \notin StoredNumbers}

\* C33: on a loaded list of identifiers, available_count is the number of
\* positions of the list get_next() can still return, and it is 0 exactly
\* when get_next() returns None.
C33_AvailableCountIsRemaining ==
    LoadedWithIdentifiers =>
        /\ AvailableCount(allPhones, successFile, failedFile)
              = Cardinality(OpenPositions)
        /\ AvailableCount(allPhones, successFile, failedFile) = 0
              <=> FirstAvailable(allPhones, LoadNumbersFromFile(successFile),
                                 LoadNumbersFromFile(failedFile)) = None

C18_MalformedLinesSkipped ==
    loaded =>
        /\ allPhones =
              LoadPhoneList(SelectSeq(sourceLines, IsIdentifierLine))
        /\ \A i \in 1..Len(allPhones) :
              /\ allPhones[i] # <<>>
              /\ \A k \in 1..Len(allPhones[i]) : IsDigit(allPhones[i][k])

\* C19: a commit whose append to the store file failed does not return
\* normally; a mark_success / mark_failed / mark_used that has returned
\* normally has its line in the store file.
C19_ReturnedCommitIsStored ==
    (pmOp.op \in CommitOps /\ ~pmOp.raised) =>
        \E i \in 1..Len(successFile \o failedFile) :
            (successFile \o failedFile)[i] = pmOp.arg

-----------------------------------------------------------------------------
(* Properties of AccountSaver.save.                                        *)

\* C22 as stated, for AccountSaver.save: once no save() is in flight, the
\* accounts file decodes and holds the account of every save() that has
\* returned.
C22_NoSavedAccountLost ==
    (savedAccounts # {} /\ \A i \in Savers : saver[i].pc = "idle")
        => /\ JsonDecodes(accountsFile.text)
           /\ savedAccounts \subseteq Range(JsonLoads(accountsFile.text))

-----------------------------------------------------------------------------
(* Properties of the selector steps of AirbnbSignupPage.                   *)

\* C29 as stated: a selector step fails only after every candidate of its
\* list has been tried; a step that returned has interacted with the
\* candidate it tried last, and every candidate before that one was tried.
C29_FailsOnlyWhenExhausted ==
    /\ selResult \notin {"idle", "running", "returned"}
          => selTried = Len(Candidates(selStep))
    /\ selResult = "returned"
          => (selActed # <<>> /\ selActed[Len(selActed)] = selTried)

====
